---------------------------- MODULE Spec2Model ----------------------------
(***************************************************************************)
(* web/serve.py: a development HTTP server.  main() changes to the script  *)
(* directory, binds a socketserver.TCPServer on PORT with the handler      *)
(* MyHTTPRequestHandler (http.server.SimpleHTTPRequestHandler rooted at    *)
(* DIRECTORY, with end_headers overridden to add four fixed headers),      *)
(* prints a banner and serves until KeyboardInterrupt.                     *)
(*                                                                         *)
(* The model runs several instances of the program on one host.  The host  *)
(* is the TCP port table (who listens on PORT, connections waiting in the  *)
(* listen backlog, closed connections still in TIME_WAIT) and a small file *)
(* system.  Library code that serve.py calls or inherits (socketserver,    *)
(* http.server of CPython 3.11) is modelled from the library's own code at *)
(* the place serve.py enters it.                                           *)
(*                                                                         *)
(* Environment assumptions: each instance receives at most one interrupt   *)
(* signal; request paths are absolute; a file that cannot be read fails    *)
(* at its first read.                                                      *)
(***************************************************************************)
EXTENDS Integers, Sequences, FiniteSets, TLC

(***************************************************************************)
(* Bounds of the model.                                                    *)
(***************************************************************************)
NumInst == 2        \* instances of the program started on the host
MaxHandlers == 2    \* connection slots an instance could handle at once
MaxPending == 1     \* connections waiting in a listen backlog

(***************************************************************************)
(* Program constants.                                                      *)
(***************************************************************************)
PORT == 8000
DIRECTORY == "static"
\* socketserver.TCPServer.allow_reuse_address: serve.py uses TCPServer as
\* it is (not http.server.HTTPServer), so SO_REUSEADDR is not set.
allow_reuse_address == FALSE
\* BaseHTTPRequestHandler.protocol_version / default_request_version
protocol_version == "HTTP/1.0"
default_request_version == "HTTP/0.9"
\* exit statuses of the interpreter
EXIT_OK == 0
EXIT_EXCEPTION == 1
EXIT_SIGINT == 130

Proc == 1..NumInst
Slot == 1..MaxHandlers

(***************************************************************************)
(* The file system.  Directories and files are absolute paths, sequences   *)
(* of names.  serve.py lives in ScriptDir.                                 *)
(***************************************************************************)
ScriptDir == <<"web">>
CallerDirs == {<<"web">>, <<"home">>, <<"web", "static">>}
Dirs ==
  { <<"web">>, <<"web", "static">>, <<"web", "static", "sub">>,
    <<"home">>, <<"home", "static">>, <<"web", "static", "static">> }
Files ==
  { <<"web", "serve.py">>,
    <<"web", "static", "index.html">>, <<"web", "static", "a.txt">>,
    <<"web", "static", "locked.txt">>, <<"web", "static", "bad.bin">>,
    <<"home", "static", "a.txt">>, <<"web", "static", "static", "a.txt">> }
\* open() raises PermissionError
Unopenable == { <<"web", "static", "locked.txt">> }
\* open() succeeds, read() raises OSError
Unreadable == { <<"web", "static", "bad.bin">> }
FileBytes(p) ==
  CASE p = <<"web", "serve.py">> -> "bytes:serve.py"
    [] p = <<"web", "static", "index.html">> -> "bytes:web/index"
    [] p = <<"web", "static", "a.txt">> -> "bytes:web/a"
    [] p = <<"web", "static", "locked.txt">> -> "bytes:web/locked"
    [] p = <<"web", "static", "bad.bin">> -> "bytes:web/bad"
    [] p = <<"home", "static", "a.txt">> -> "bytes:home/a"
    [] p = <<"web", "static", "static", "a.txt">> -> "bytes:web/static/a"
    [] OTHER -> ""
isdir(p) == p \in Dirs
isfile(p) == p \in Files

(***************************************************************************)
(* Tokens written to a connection, and header values.                      *)
(***************************************************************************)
Tok(t, k, v, c) == [t |-> t, k |-> k, v |-> v, code |-> c]
StatusLine(code) == Tok("status", protocol_version, "", code)
Hdr(k, v) == Tok("header", k, v, 0)
CRLF == Tok("crlf", "", "", 0)
FileBody(bytes) == Tok("body", "file", bytes, 0)
ErrorBody(code) == Tok("body", "error", "", code)
ListingBody == Tok("body", "listing", "", 0)
NoBody == Tok("nobody", "", "", 0)

\* send_response_only: the status line goes to the headers buffer, unless
\* the request is an HTTP/0.9 one.
send_response_only(rv, buf, code) ==
  IF rv # "HTTP/0.9" THEN Append(buf, StatusLine(code)) ELSE buf

\* send_header: one header goes to the headers buffer, unless the request is
\* an HTTP/0.9 one.
send_header(rv, buf, k, v) ==
  IF rv # "HTTP/0.9" THEN Append(buf, Hdr(k, v)) ELSE buf

\* send_response: status line, Server and Date.
send_response(rv, buf, code) ==
  send_header(rv,
    send_header(rv, send_response_only(rv, buf, code), "Server", "SimpleHTTP"),
    "Date", "now")

(***************************************************************************)
(* Requests.  A request is what the handler reads from one connection:     *)
(*   raw     "line": a request line; "eof": the client closed without      *)
(*           sending; "toolong": a request line of more than 65536 bytes   *)
(*   n       the number of words of the request line                       *)
(*   command, path, version: its first, second and last word               *)
(*   hdr     "ok", or "toolong" (a header line parse_headers refuses)      *)
(*   ims     If-Modified-Since: "absent", "notmodified" (not before the    *)
(*           file's mtime), "modified" (before it), "illformed"            *)
(*   inm     whether If-None-Match is present                              *)
(* A path is its components and whether it ends with "/".                  *)
(***************************************************************************)
Path(comps, slash) == [comps |-> comps, slash |-> slash]
Req(raw, n, command, path, version, hdr, ims, inm) ==
  [raw |-> raw, n |-> n, command |-> command, path |-> path,
   version |-> version, hdr |-> hdr, ims |-> ims, inm |-> inm]
NoPath == Path(<<>>, FALSE)
NoReq == Req("none", 0, "", NoPath, "", "ok", "absent", FALSE)

\* The version check of parse_request: "ok", "bad" (400) or "unsupported"
\* (505, version >= 2.0), from the last word of a request line of three or
\* more words.
version_check(version) ==
  CASE version = "HTTP/0.9" -> "ok"
    [] version = "HTTP/1.0" -> "ok"
    [] version = "HTTP/1.1" -> "ok"
    [] version = "HTTP/2.0" -> "unsupported"
    [] OTHER -> "bad"       \* "FOO/1.1", "HTTP/1", ...

\* parse_request: what it leaves in self.request_version and self.command,
\* and the error it sent (0: none).  ok: the request goes on to do_<command>.
Parsed(ok, rv, command, err) ==
  [ok |-> ok, request_version |-> rv, command |-> command, err |-> err]
parse_request(req) ==
  LET rv0 == default_request_version IN
  IF req.n = 0 THEN Parsed(FALSE, rv0, "", 0)
  ELSE IF req.n >= 3 /\ version_check(req.version) = "bad"
    THEN Parsed(FALSE, rv0, "", 400)
  ELSE IF req.n >= 3 /\ version_check(req.version) = "unsupported"
    THEN Parsed(FALSE, rv0, "", 505)
  ELSE LET rv == IF req.n >= 3 THEN req.version ELSE rv0 IN
    IF ~(2 <= req.n /\ req.n <= 3) THEN Parsed(FALSE, rv, "", 400)
    ELSE IF req.n = 2 /\ req.command # "GET" THEN Parsed(FALSE, rv, "", 400)
    ELSE IF req.hdr = "toolong" THEN Parsed(FALSE, rv, req.command, 431)
    ELSE Parsed(TRUE, rv, req.command, 0)

\* self.close_connection after parse_request: protocol_version is HTTP/1.0,
\* so neither an HTTP/1.1 request nor "Connection: keep-alive" keeps the
\* connection open.
close_connection(req) ==
  ~(protocol_version = "HTTP/1.1" /\ req.n >= 3 /\ req.version = "HTTP/1.1")

\* posixpath.normpath on the components of an absolute path: "." and empty
\* components go, ".." removes the component before it (none at the root).
RECURSIVE normpath_from(_, _)
normpath_from(comps, acc) ==
  IF comps = <<>> THEN acc
  ELSE LET c == Head(comps) IN
    normpath_from(Tail(comps),
      IF c = "." \/ c = "" THEN acc
      ELSE IF c = ".." THEN
        (IF acc = <<>> THEN acc ELSE SubSeq(acc, 1, Len(acc) - 1))
      ELSE Append(acc, c))
normpath(comps) == normpath_from(comps, <<>>)

\* translate_path: the file name for a request path, relative to the
\* process's working directory: self.directory, then the components that
\* are plain names; the trailing slash is kept.
RECURSIVE join_words(_, _)
join_words(path, words) ==
  IF words = <<>> THEN path
  ELSE join_words(
         IF Head(words) \in {".", ".."} THEN path ELSE Append(path, Head(words)),
         Tail(words))
\* The request path joined as it came.
translate_path_raw(directory, p) == Path(<<directory>> \o p.comps, p.slash)

translate_path(directory, p) ==
  Path(join_words(<<directory>>, normpath(p.comps)), p.slash)

\* MyHTTPRequestHandler.__init__: self.directory
handler_directory == DIRECTORY

\* How the OS resolves a relative file name: against the working directory,
\* following "." and "..".
abspath(cwd_, rel) == normpath(cwd_ \o rel)

(***************************************************************************)
(* The response to one request, up to the call of self.end_headers():      *)
(*   rv, command   self.request_version, self.command                      *)
(*   code          the status given to send_response (0: no response)      *)
(*   buf           self._headers_buffer                                    *)
(*   body          what is written after the headers (NoBody: nothing)     *)
(*   src           the file whose bytes the body copies (<<>>: none)       *)
(***************************************************************************)
Plan(rv, command, code, buf, body, src) ==
  [rv |-> rv, command |-> command, code |-> code, buf |-> buf,
   body |-> body, src |-> src]
NoResponse(rv) == Plan(rv, "", 0, <<>>, NoBody, <<>>)

\* send_error, up to its call of end_headers: status line, Server, Date,
\* Connection: close and, for a code with a body, Content-Type and
\* Content-Length; the body is the error page unless the command is HEAD.
send_error(rv, command, code) ==
  LET b1 == send_header(rv, send_response(rv, <<>>, code), "Connection", "close")
      hasBody == code >= 200 /\ code \notin {204, 205, 304}
      b2 == IF hasBody
            THEN send_header(rv,
                   send_header(rv, b1, "Content-Type", "text/html;charset=utf-8"),
                   "Content-Length", "len(body)")
            ELSE b1
  IN Plan(rv, command, code, b2,
          IF command # "HEAD" /\ hasBody THEN ErrorBody(code) ELSE NoBody, <<>>)

\* The 200 response of send_head for the open file f.
send_file_head(rv, command, f) ==
  Plan(rv, command, 200,
       send_header(rv,
         send_header(rv,
           send_header(rv, send_response(rv, <<>>, 200), "Content-type", "guess_type"),
           "Content-Length", "st_size"),
         "Last-Modified", "st_mtime"),
       IF command = "GET" THEN FileBody(FileBytes(f)) ELSE NoBody,
       IF command = "GET" THEN f ELSE <<>>)

\* send_head after the directory cases: path is the file to open.
send_head_file(rv, command, req, path, slash) ==
  IF slash THEN send_error(rv, command, 404)
  ELSE IF ~isfile(path) \/ path \in Unopenable THEN send_error(rv, command, 404)
  ELSE IF req.ims = "notmodified" /\ ~req.inm
    THEN Plan(rv, command, 304, send_response(rv, <<>>, 304), NoBody, <<>>)
  ELSE send_file_head(rv, command, path)

\* SimpleHTTPRequestHandler.send_head with do_GET / do_HEAD around it, in a
\* process whose working directory is cwd_.
send_head(cwd_, rv, command, req) ==
  LET rel == translate_path(handler_directory, req.path)
      path == abspath(cwd_, rel.comps)
  IN IF isdir(path) THEN
       IF ~req.path.slash THEN
         Plan(rv, command, 301,
              send_header(rv,
                send_header(rv, send_response(rv, <<>>, 301), "Location", "path/"),
                "Content-Length", "0"),
              NoBody, <<>>)
       ELSE IF isfile(Append(path, "index.html"))
         THEN send_head_file(rv, command, req, Append(path, "index.html"), FALSE)
       ELSE \* list_directory
         Plan(rv, command, 200,
              send_header(rv,
                send_header(rv, send_response(rv, <<>>, 200), "Content-type", "text/html"),
                "Content-Length", "len(listing)"),
              IF command = "GET" THEN ListingBody ELSE NoBody, <<>>)
     ELSE send_head_file(rv, command, req, path, rel.slash)

\* handle_one_request up to the call of end_headers.
handle_one_request(cwd_, req) ==
  IF req.raw = "eof" THEN NoResponse(default_request_version)
  ELSE IF req.raw = "toolong" THEN send_error("", "", 414)
  ELSE LET p == parse_request(req) IN
    IF ~p.ok THEN
      (IF p.err = 0 THEN NoResponse(p.request_version)
       ELSE send_error(p.request_version, p.command, p.err))
    ELSE IF p.command \notin {"GET", "HEAD"}
      THEN send_error(p.request_version, p.command, 501)
    ELSE send_head(cwd_, p.request_version, p.command, req)

\* A header added twice.
add_fixed_headers_twice(rv, buf) ==
  send_header(rv,
    send_header(rv,
      send_header(rv,
        send_header(rv,
          send_header(rv, buf, "Access-Control-Allow-Origin", "*"),
          "Access-Control-Allow-Methods", "GET, POST, OPTIONS"),
        "Access-Control-Allow-Headers", "Content-Type"),
      "Cache-Control", "no-cache, no-store, must-revalidate"),
    "Cache-Control", "no-cache, no-store, must-revalidate")

\* A header value other than the documented one.
add_fixed_headers_novalidate(rv, buf) ==
  send_header(rv,
    send_header(rv,
      send_header(rv,
        send_header(rv, buf, "Access-Control-Allow-Origin", "*"),
        "Access-Control-Allow-Methods", "GET, POST, OPTIONS"),
      "Access-Control-Allow-Headers", "Content-Type"),
    "Cache-Control", "no-cache, no-store")

\* MyHTTPRequestHandler.end_headers, its own part (lines 21-26): the four
\* send_header calls, in order.
add_fixed_headers(rv, buf) ==
  send_header(rv,
    send_header(rv,
      send_header(rv,
        send_header(rv, buf, "Access-Control-Allow-Origin", "*"),
        "Access-Control-Allow-Methods", "GET, POST, OPTIONS"),
      "Access-Control-Allow-Headers", "Content-Type"),
    "Cache-Control", "no-cache, no-store, must-revalidate")

\* BaseHTTPRequestHandler.end_headers: the blank line, then flush_headers
\* writes the buffer to the connection; nothing for an HTTP/0.9 request.
\* The result is <<buffer, connection>>.
super_end_headers(rv, buf, wire) ==
  IF rv # "HTTP/0.9" THEN << <<>>, wire \o Append(buf, CRLF) >>
  ELSE << buf, wire >>

(***************************************************************************)
(* State.                                                                  *)
(*   pc[i]        where instance i is in main(): "off" (not started),      *)
(*                "chdir" (line 32), "bind" (34), "banner" (35-40),        *)
(*                "serve" (43), "except" (45), "sysexit" (46), "exiting"   *)
(*                (an exception is leaving main), "done" (process gone)    *)
(*   startDir[i]  the working directory the caller started i from          *)
(*   cwd[i]       the process's working directory                          *)
(*   listening[i] whether i's server socket is bound and listening         *)
(*   boundPort[i] the port i's socket is bound to (0: none)                *)
(*   bindTries[i] how many times i called bind                             *)
(*   stdout[i]    what i printed                                           *)
(*   exc[i]       the exception leaving main ("none" while there is none)  *)
(*   exitStatus[i] <<>> while the process lives, then <<status>>           *)
(*   intAt[i]     the pc at which the interrupt arrived ("none": not yet)  *)
(*   accepted[i]  whether i ever accepted a connection                     *)
(*   pending[i]   connections in i's listen backlog                        *)
(*   timeWait     whether a connection closed first by a server is still   *)
(*                in TIME_WAIT on local port PORT                          *)
(*   hs[i][k]     the request handler of connection slot k                 *)
(***************************************************************************)
VARIABLES pc, startDir, cwd, listening, boundPort, bindTries, stdout, exc,
          exitStatus, intAt, accepted, pending, timeWait, hs

vars == << pc, startDir, cwd, listening, boundPort, bindTries, stdout, exc,
           exitStatus, intAt, accepted, pending, timeWait, hs >>

\* A handler: st is "idle", "handle" (constructed, about to read), 
\* "end_headers" (at the call of self.end_headers()), "super" (at line 28),
\* "body" (headers flushed), "done" (handle() returned or raised).
Handler(st, req, plan, wire, raised, root) ==
  [st |-> st, req |-> req, rv |-> plan.rv, command |-> plan.command,
   code |-> plan.code, buf |-> plan.buf, body |-> plan.body, src |-> plan.src,
   wire |-> wire, raised |-> raised, root |-> root]
IdleHandler == Handler("idle", NoReq, NoResponse(""), <<>>, FALSE, <<>>)

Banner(port, dir) == [kind |-> "banner", port |-> port, dir |-> dir]
Stopped == [kind |-> "stopped", port |-> 0, dir |-> <<>>]

Init ==
  /\ pc = [i \in Proc |-> "off"]
  /\ startDir = [i \in Proc |-> <<>>]
  /\ cwd = [i \in Proc |-> <<>>]
  /\ listening = [i \in Proc |-> FALSE]
  /\ boundPort = [i \in Proc |-> 0]
  /\ bindTries = [i \in Proc |-> 0]
  /\ stdout = [i \in Proc |-> <<>>]
  /\ exc = [i \in Proc |-> "none"]
  /\ exitStatus = [i \in Proc |-> <<>>]
  /\ intAt = [i \in Proc |-> "none"]
  /\ accepted = [i \in Proc |-> FALSE]
  /\ pending = [i \in Proc |-> 0]
  /\ timeWait = FALSE
  /\ hs = [i \in Proc |-> [k \in Slot |-> IdleHandler]]

(***************************************************************************)
(* main()                                                                  *)
(***************************************************************************)
\* The caller starts instance i from working directory d.
Start(i, d) ==
  /\ pc[i] = "off"
  /\ IF i = 1 THEN TRUE ELSE pc[i - 1] # "off"
  /\ pc' = [pc EXCEPT ![i] = "chdir"]
  /\ startDir' = [startDir EXCEPT ![i] = d]
  /\ cwd' = [cwd EXCEPT ![i] = d]
  /\ UNCHANGED << listening, boundPort, bindTries, stdout, exc, exitStatus,
                  intAt, accepted, pending, timeWait, hs >>

\* The working directory is left as the caller's.
script_directory_cwd(d) == d

\* Line 32: os.path.dirname(os.path.abspath(__file__)), for a process
\* started from working directory d.
script_directory(d) == ScriptDir

main_chdir(i) ==
  /\ pc[i] = "chdir"
  /\ cwd' = [cwd EXCEPT ![i] = script_directory(cwd[i])]
  /\ pc' = [pc EXCEPT ![i] = "bind"]
  /\ UNCHANGED << startDir, listening, boundPort, bindTries, stdout, exc,
                  exitStatus, intAt, accepted, pending, timeWait, hs >>

\* A bind that never fails.
bind_ok_always(port) == TRUE

\* socket.bind(("", port)) of a socket without SO_REUSEPORT: refused while a
\* socket listens on the port and, without SO_REUSEADDR, while a closed
\* connection of the port is in TIME_WAIT.
bind_ok(port) ==
  /\ \A j \in Proc : ~(listening[j] /\ boundPort[j] = port)
  /\ allow_reuse_address \/ ~(timeWait /\ port = PORT)

\* TCPServer.server_close(): the listening socket is closed; the
\* connections waiting in its backlog are reset.
server_close(i) ==
  /\ listening' = [listening EXCEPT ![i] = FALSE]
  /\ pending' = [pending EXCEPT ![i] = 0]

\* Line 34: TCPServer.__init__: server_bind and server_activate; an OSError
\* closes the socket and leaves main.
TCPServer_init(i) ==
  /\ pc[i] = "bind"
  /\ bindTries' = [bindTries EXCEPT ![i] = @ + 1]
  /\ IF bind_ok(PORT)
     THEN /\ listening' = [listening EXCEPT ![i] = TRUE]
          /\ boundPort' = [boundPort EXCEPT ![i] = PORT]
          /\ pc' = [pc EXCEPT ![i] = "banner"]
          /\ exc' = exc
     ELSE /\ pc' = [pc EXCEPT ![i] = "exiting"]
          /\ exc' = [exc EXCEPT ![i] = "OSError"]
          /\ UNCHANGED << listening, boundPort >>
  /\ UNCHANGED << startDir, cwd, stdout, exitStatus, intAt, accepted, pending,
                  timeWait, hs >>

\* Lines 35-40: the banner, with the port and os.path.join(os.getcwd(),
\* DIRECTORY); then the try block and serve_forever are entered.
print_banner(i) ==
  /\ pc[i] = "banner"
  /\ stdout' = [stdout EXCEPT ![i] = Append(@, Banner(PORT, Append(cwd[i], DIRECTORY)))]
  /\ pc' = [pc EXCEPT ![i] = "serve"]
  /\ UNCHANGED << startDir, cwd, listening, boundPort, bindTries, exc,
                  exitStatus, intAt, accepted, pending, timeWait, hs >>

\* A try block that starts before the banner.
in_try_wide(pcv) == pcv \in {"banner", "serve"}

\* Lines 42-44: the pcs at which a KeyboardInterrupt is caught by main.
in_try(pcv) == pcv = "serve"

ActiveSlots(i) == {k \in Slot : hs[i][k].st # "idle"}

\* The interrupt signal arrives: KeyboardInterrupt is raised in the main
\* thread.  In the serve loop it aborts the handler (BaseServer.
\* _handle_request_noblock: shutdown_request, raise) and is caught at line
\* 44.  Elsewhere nothing catches it: inside the with block (banner) the
\* server socket is closed by TCPServer.__exit__, and it leaves main.
\* closer: which end closes an aborted connection first.
Interrupt(i, closer) ==
  /\ intAt[i] = "none"
  /\ pc[i] \in {"chdir", "bind", "banner", "serve"}
  /\ intAt' = [intAt EXCEPT ![i] = pc[i]]
  /\ IF in_try(pc[i])
     THEN /\ pc' = [pc EXCEPT ![i] = "except"]
          /\ hs' = [hs EXCEPT ![i] = [k \in Slot |-> IdleHandler]]
          /\ timeWait' = (timeWait \/ (ActiveSlots(i) # {} /\ closer = "server"))
          /\ UNCHANGED << exc, listening, pending >>
     ELSE /\ pc' = [pc EXCEPT ![i] = "exiting"]
          /\ exc' = [exc EXCEPT ![i] = "KeyboardInterrupt"]
          /\ IF listening[i] THEN server_close(i)
                             ELSE UNCHANGED << listening, pending >>
          /\ hs' = [hs EXCEPT ![i] = [k \in Slot |-> IdleHandler]]
          /\ timeWait' = (timeWait \/ (ActiveSlots(i) # {} /\ closer = "server"))
  /\ UNCHANGED << startDir, cwd, boundPort, bindTries, stdout, exitStatus,
                  accepted >>

\* Line 45.
print_stopped(i) ==
  /\ pc[i] = "except"
  /\ stdout' = [stdout EXCEPT ![i] = Append(@, Stopped)]
  /\ pc' = [pc EXCEPT ![i] = "sysexit"]
  /\ UNCHANGED << startDir, cwd, listening, boundPort, bindTries, exc,
                  exitStatus, intAt, accepted, pending, timeWait, hs >>

\* Line 46: sys.exit(0) raises SystemExit; leaving the with block of line 34
\* runs TCPServer.__exit__, which closes the server socket.
sys_exit(i) ==
  /\ pc[i] = "sysexit"
  /\ exc' = [exc EXCEPT ![i] = "SystemExit"]
  /\ server_close(i)
  /\ pc' = [pc EXCEPT ![i] = "exiting"]
  /\ UNCHANGED << startDir, cwd, boundPort, bindTries, stdout, exitStatus,
                  intAt, accepted, timeWait, hs >>

\* An exit with a failure status.
sys_exit_code_failure == EXIT_EXCEPTION

\* Line 46: the argument of sys.exit.
sys_exit_code == EXIT_OK

\* The status the interpreter exits with when exception e leaves main:
\* the argument of sys.exit for SystemExit, death by SIGINT for
\* KeyboardInterrupt, 1 after the traceback of any other exception.
exit_status(e) ==
  CASE e = "SystemExit" -> sys_exit_code
    [] e = "KeyboardInterrupt" -> EXIT_SIGINT
    [] OTHER -> EXIT_EXCEPTION

\* Lines 48-49: the exception reaches the top level and the process ends.
process_exit(i) ==
  /\ pc[i] = "exiting"
  /\ exitStatus' = [exitStatus EXCEPT ![i] = << exit_status(exc[i]) >>]
  /\ pc' = [pc EXCEPT ![i] = "done"]
  /\ UNCHANGED << startDir, cwd, listening, boundPort, bindTries, stdout, exc,
                  intAt, accepted, pending, timeWait, hs >>

(***************************************************************************)
(* serve_forever() and the request handler                                 *)
(***************************************************************************)
\* A client's connection is established and waits in i's listen backlog.
ClientConnect(i) ==
  /\ listening[i]
  /\ pending[i] < MaxPending
  /\ pending' = [pending EXCEPT ![i] = @ + 1]
  /\ UNCHANGED << pc, startDir, cwd, listening, boundPort, bindTries, stdout,
                  exc, exitStatus, intAt, accepted, timeWait, hs >>

\* A server that handles each connection in a thread of its own.
can_accept_threading(i) == TRUE

\* BaseServer.process_request is synchronous (no ForkingMixIn or
\* ThreadingMixIn in TCPServer): serve_forever comes back to select() only
\* when finish_request and shutdown_request have returned.
can_accept(i) == \A k \in Slot : hs[i][k].st = "idle"

\* Line 43, serve_forever: select() reports the socket readable,
\* get_request() accepts the connection and finish_request constructs the
\* handler (MyHTTPRequestHandler.__init__, lines 16-17).
get_request(i, k) ==
  /\ pc[i] = "serve"
  /\ can_accept(i)
  /\ pending[i] > 0
  /\ hs[i][k].st = "idle"
  /\ \A j \in Slot : j < k => hs[i][j].st # "idle"
  /\ pending' = [pending EXCEPT ![i] = @ - 1]
  /\ accepted' = [accepted EXCEPT ![i] = TRUE]
  /\ hs' = [hs EXCEPT ![i][k] = [IdleHandler EXCEPT !.st = "handle"]]
  /\ UNCHANGED << pc, startDir, cwd, listening, boundPort, bindTries, stdout,
                  exc, exitStatus, intAt, timeWait >>

\* handle() -> handle_one_request(): the request is read and parsed and
\* the response is prepared, up to the call of self.end_headers().  A
\* request that gets no response (eof, blank line) ends the handler.
read_request(i, k, req) ==
  /\ pc[i] = "serve"
  /\ hs[i][k].st = "handle"
  /\ LET plan == handle_one_request(cwd[i], req) IN
       hs' = [hs EXCEPT ![i][k] =
                Handler(IF plan.code = 0 THEN "done" ELSE "end_headers",
                        req, plan, <<>>, FALSE,
                        abspath(cwd[i], <<handler_directory>>))]
  /\ UNCHANGED << pc, startDir, cwd, listening, boundPort, bindTries, stdout,
                  exc, exitStatus, intAt, accepted, pending, timeWait >>

\* Lines 19-26: MyHTTPRequestHandler.end_headers, the four send_header
\* calls.
end_headers(i, k) ==
  /\ pc[i] = "serve"
  /\ hs[i][k].st = "end_headers"
  /\ hs' = [hs EXCEPT ![i][k].buf = add_fixed_headers(hs[i][k].rv, @),
                      ![i][k].st = "super"]
  /\ UNCHANGED << pc, startDir, cwd, listening, boundPort, bindTries, stdout,
                  exc, exitStatus, intAt, accepted, pending, timeWait >>

\* Line 28: super().end_headers().
end_headers_super(i, k) ==
  /\ pc[i] = "serve"
  /\ hs[i][k].st = "super"
  /\ LET r == super_end_headers(hs[i][k].rv, hs[i][k].buf, hs[i][k].wire) IN
       hs' = [hs EXCEPT ![i][k].buf = r[1], ![i][k].wire = r[2],
                        ![i][k].st = "body"]
  /\ UNCHANGED << pc, startDir, cwd, listening, boundPort, bindTries, stdout,
                  exc, exitStatus, intAt, accepted, pending, timeWait >>

\* An exception of the handler that leaves serve_forever.
pc_after_handler_exception_fatal == "exiting"

\* BaseServer._handle_request_noblock: an Exception raised by the handler is
\* reported by handle_error and the serve loop goes on.
pc_after_handler_exception == "serve"

\* The body: send_error's wfile.write(body), or do_GET's copyfile.  Reading
\* an unreadable file raises OSError out of the handler.
write_body(i, k) ==
  /\ pc[i] = "serve"
  /\ hs[i][k].st = "body"
  /\ IF hs[i][k].src \in Unreadable
     THEN /\ hs' = [hs EXCEPT ![i][k].raised = TRUE, ![i][k].st = "done"]
          /\ pc' = [pc EXCEPT ![i] = pc_after_handler_exception]
     ELSE /\ hs' = [hs EXCEPT ![i][k].wire =
                      IF hs[i][k].body = NoBody THEN @ ELSE Append(@, hs[i][k].body),
                      ![i][k].st = "done"]
          /\ pc' = pc
  /\ UNCHANGED << startDir, cwd, listening, boundPort, bindTries, stdout,
                  exc, exitStatus, intAt, accepted, pending, timeWait >>

\* TCPServer.shutdown_request: the connection is shut down and closed.  If
\* the server's end closes first, the connection stays in TIME_WAIT on the
\* server's port.
shutdown_request(i, k, closer) ==
  /\ pc[i] = "serve"
  /\ hs[i][k].st = "done"
  /\ close_connection(hs[i][k].req)
  /\ hs' = [hs EXCEPT ![i][k] = IdleHandler]
  /\ timeWait' = (timeWait \/ closer = "server")
  /\ UNCHANGED << pc, startDir, cwd, listening, boundPort, bindTries, stdout,
                  exc, exitStatus, intAt, accepted, pending >>

\* The TIME_WAIT period of the closed connections is over.
time_wait_expires ==
  /\ timeWait
  /\ timeWait' = FALSE
  /\ UNCHANGED << pc, startDir, cwd, listening, boundPort, bindTries, stdout,
                  exc, exitStatus, intAt, accepted, pending, hs >>

(***************************************************************************)
(* Inputs.                                                                 *)
(***************************************************************************)
Closers == {"server", "client"}
Commands == {"GET", "HEAD", "POST", "OPTIONS"}
Versions == {"HTTP/0.9", "HTTP/1.0", "HTTP/1.1", "HTTP/2.0", "FOO/1.1"}
Paths ==
  { Path(<<>>, TRUE), Path(<<"index.html">>, FALSE), Path(<<"a.txt">>, FALSE),
    Path(<<"a.txt">>, TRUE), Path(<<"missing">>, FALSE), Path(<<"sub">>, FALSE),
    Path(<<"sub">>, TRUE), Path(<<"locked.txt">>, FALSE),
    Path(<<"bad.bin">>, FALSE), Path(<<"..", "serve.py">>, FALSE),
    Path(<<"sub", "..", "a.txt">>, FALSE) }
Conditionals ==
  { <<"absent", FALSE>>, <<"notmodified", FALSE>>, <<"notmodified", TRUE>>,
    <<"modified", FALSE>>, <<"illformed", FALSE>> }

\* Every request of the model.
HttpRequests ==
  { Req("eof", 0, "", NoPath, "", "ok", "absent", FALSE),
    Req("toolong", 3, "GET", Path(<<"a.txt">>, FALSE), "HTTP/1.0", "ok", "absent", FALSE),
    Req("line", 0, "", NoPath, "", "ok", "absent", FALSE),
    Req("line", 1, "GARBAGE", NoPath, "GARBAGE", "ok", "absent", FALSE),
    Req("line", 4, "GET", Path(<<"a.txt">>, FALSE), "HTTP/1.0", "ok", "absent", FALSE) }
  \cup { Req("line", 2, c, p, "", "ok", "absent", FALSE) :
           c \in {"GET", "HEAD"}, p \in Paths }
  \cup { Req("line", 3, c, p, v, "ok", "absent", FALSE) :
           c \in Commands, p \in Paths, v \in Versions }
  \cup { Req("line", 3, c, p, "HTTP/1.1", "ok", m[1], m[2]) :
           c \in {"GET", "HEAD"}, p \in Paths, m \in Conditionals }
  \cup { Req("line", 3, "GET", Path(<<"a.txt">>, FALSE), v, "toolong", "absent", FALSE) :
           v \in {"HTTP/1.0"} }
  \cup { Req("line", 2, "GET", Path(<<"a.txt">>, FALSE), "", "toolong", "absent", FALSE) }

\* The requests of the specification of the processes' life.
FewRequests ==
  { Req("line", 3, "GET", Path(<<"a.txt">>, FALSE), "HTTP/1.0", "ok", "absent", FALSE),
    Req("line", 3, "GET", Path(<<"missing">>, FALSE), "HTTP/1.1", "ok", "absent", FALSE),
    Req("line", 2, "GET", Path(<<>>, TRUE), "", "ok", "absent", FALSE) }

(***************************************************************************)
(* Specifications.  Spec: NumInst instances started from any of the        *)
(* callers' directories, a few requests.  SpecHttp: one instance, every    *)
(* request of HttpRequests.                                                *)
(***************************************************************************)
Step(i, dirs, reqs) ==
  \/ \E d \in dirs : Start(i, d)
  \/ main_chdir(i)
  \/ TCPServer_init(i)
  \/ print_banner(i)
  \/ \E c \in Closers : Interrupt(i, c)
  \/ print_stopped(i)
  \/ sys_exit(i)
  \/ process_exit(i)
  \/ ClientConnect(i)
  \/ \E k \in Slot : get_request(i, k)
  \/ \E k \in Slot, req \in reqs : read_request(i, k, req)
  \/ \E k \in Slot : end_headers(i, k)
  \/ \E k \in Slot : end_headers_super(i, k)
  \/ \E k \in Slot : write_body(i, k)
  \/ \E k \in Slot, c \in Closers : shutdown_request(i, k, c)

Next ==
  \/ \E i \in Proc : Step(i, CallerDirs, FewRequests)
  \/ time_wait_expires

Spec == Init /\ [][Next]_vars

NextHttp ==
  \/ Step(1, {<<"home">>}, HttpRequests)
  \/ time_wait_expires

SpecHttp == Init /\ [][NextHttp]_vars

(***************************************************************************)
(* Vocabulary of the properties.                                           *)
(***************************************************************************)
\* The four headers and their values, as documented.
DocumentedHeaders ==
  << Hdr("Access-Control-Allow-Origin", "*"),
     Hdr("Access-Control-Allow-Methods", "GET, POST, OPTIONS"),
     Hdr("Access-Control-Allow-Headers", "Content-Type"),
     Hdr("Cache-Control", "no-cache, no-store, must-revalidate") >>
\* The documented root: the "static" directory next to the program file.
DocumentedRoot == Append(ScriptDir, "static")

Count(seq, x) == Cardinality({n \in 1..Len(seq) : seq[n] = x})
Index(seq, x) == CHOOSE n \in 1..Len(seq) : seq[n] = x
CarriesDocumentedHeaders(seq) ==
  \A n \in 1..4 : Count(seq, DocumentedHeaders[n]) >= 1
CarriesEachOnce(seq) ==
  \A n \in 1..4 : Count(seq, DocumentedHeaders[n]) = 1
NoHeaderBytes(seq) ==
  \A n \in 1..Len(seq) : seq[n].t \notin {"status", "header", "crlf"}
Printed(i, kind) == \E n \in 1..Len(stdout[i]) : stdout[i][n].kind = kind
IsPrefix(a, b) == Len(a) <= Len(b) /\ SubSeq(b, 1, Len(a)) = a

\* A request whose request line carries a supported version, or is too long
\* to be parsed: the requests answered with a status line and headers.
VersionedRequest(req) ==
  \/ req.raw = "toolong"
  \/ req.raw = "line" /\ req.n >= 3 /\ req.version \in {"HTTP/1.0", "HTTP/1.1"}
\* A well-formed GET request: "GET path" or "GET path HTTP/x.y".
IsGet(req) ==
  /\ req.raw = "line" /\ req.command = "GET" /\ req.hdr = "ok"
  /\ \/ req.n = 2
     \/ req.n = 3 /\ req.version \in {"HTTP/0.9", "HTTP/1.0", "HTTP/1.1"}
\* What the path of a request names under the documented root: the path is
\* a path of the site, so ".." does not climb above the root.
Named(req) == DocumentedRoot \o normpath(req.path.comps)
NamesFile(req) == ~req.path.slash /\ isfile(Named(req))
NamesNothing(req) == ~isfile(Named(req)) /\ ~isdir(Named(req))
Conditional(req) == req.ims = "notmodified" /\ ~req.inm
\* The response is complete: handle() has returned or raised.
Complete(h) == h.st = "done"
LastIs(wire, tok) == wire # <<>> /\ wire[Len(wire)] = tok
StatusOnWire(h, code) ==
  /\ h.code = code
  /\ h.rv # "HTTP/0.9" => (h.wire # <<>> /\ h.wire[1] = StatusLine(code))

C5_GetFileOrNotFound ==
  \A i \in Proc, k \in Slot :
    LET h == hs[i][k] IN
      (Complete(h) /\ IsGet(h.req)) =>
        /\ NamesFile(h.req) =>
             h.code = 200 /\ LastIs(h.wire, FileBody(FileBytes(Named(h.req))))
        /\ NamesNothing(h.req) => h.code = 404

\* C5 (amended): for every GET request for a path P: if P names an existing
\* file under the root that can be opened and read, and the request is not
\* a conditional one that the file satisfies (If-Modified-Since not before
\* the file's modification time, without If-None-Match), the status is 200
\* and the body is the file's bytes; such a conditional request is answered
\* 304 without a body; a file that cannot be opened is answered 404; a file
\* whose read fails is answered 200 with no body; if P names nothing that
\* exists under the root the status is 404.  The status is on the status
\* line, except in the response to an HTTP/0.9 request, which has none.
C5_GetReadableFileOrNotFound ==
  \A i \in Proc, k \in Slot :
    LET h == hs[i][k] IN
      (Complete(h) /\ IsGet(h.req)) =>
        /\ NamesFile(h.req) =>
             IF Named(h.req) \in Unopenable
               THEN StatusOnWire(h, 404) /\ LastIs(h.wire, ErrorBody(404))
             ELSE IF Conditional(h.req)
               THEN StatusOnWire(h, 304) /\ LastIs(h.wire, CRLF)
             ELSE IF Named(h.req) \in Unreadable
               THEN StatusOnWire(h, 200) /\ h.raised
                    /\ \A m \in 1..Len(h.wire) : h.wire[m].t # "body"
             ELSE /\ StatusOnWire(h, 200)
                  /\ LastIs(h.wire, FileBody(FileBytes(Named(h.req))))
        /\ NamesNothing(h.req) =>
             StatusOnWire(h, 404) /\ LastIs(h.wire, ErrorBody(404))

C5_Witness ==
  \E k \in Slot :
    /\ Complete(hs[1][k]) /\ IsGet(hs[1][k].req)
    /\ hs[1][k].req.path = Path(<<"sub", "..", "a.txt">>, FALSE)
    /\ hs[1][k].code = 200
    /\ LastIs(hs[1][k].wire, FileBody("bytes:web/a"))

(***************************************************************************)
(* C4                                                                      *)
(***************************************************************************)
\* The per-request failures: the file is not found, cannot be opened, or
\* cannot be read.
NotFoundOrDenied(req) ==
  IsGet(req) /\ (NamesNothing(req) \/ (NamesFile(req) /\ Named(req) \in Unopenable))
ReadFails(req) ==
  IsGet(req) /\ NamesFile(req) /\ Named(req) \in Unreadable /\ ~Conditional(req)
IsErrorResponse(h) ==
  h.code >= 400 /\ ~h.raised /\ LastIs(h.wire, ErrorBody(h.code))
\* A process ended with a failure status only by a failed bind or by an
\* interrupt.
OnlyBindOrInterruptFatal(i) ==
  (exitStatus[i] # <<>> /\ exitStatus[i] # << EXIT_OK >>) =>
    (exc[i] = "OSError" /\ bindTries[i] = 1 /\ ~accepted[i]) \/ intAt[i] # "none"
StillServing(i) == pc[i] = "serve" /\ listening[i] /\ exitStatus[i] = <<>>

\* C4 (as claimed): bind failure is the only fatal condition; each request
\* that fails (file not found, permission or read error) is answered with
\* an ordinary HTTP error response and the server stays in the serving
\* state with its listening socket open.
C4_FailuresAnsweredServerStays ==
  \A i \in Proc :
    /\ OnlyBindOrInterruptFatal(i)
    /\ \A k \in Slot :
         LET h == hs[i][k] IN
           (Complete(h) /\ (NotFoundOrDenied(h.req) \/ ReadFails(h.req))) =>
             IsErrorResponse(h) /\ StillServing(i)

\* C4 (amended): apart from an interrupt, bind failure is the only fatal
\* condition; a request for a file that is not found or cannot be opened is
\* answered with the 404 error response; a request for a file whose read
\* fails gets no error response (its status is 200, the headers are sent
\* as for a readable file, the body is missing and the connection is
\* closed); in every case, while and
\* after a request is handled the server stays in the serving state with
\* its listening socket open.
C4_FailuresHandledServerStays ==
  \A i \in Proc :
    /\ OnlyBindOrInterruptFatal(i)
    /\ \A k \in Slot :
         LET h == hs[i][k] IN
           /\ h.st # "idle" => StillServing(i)
           /\ (Complete(h) /\ NotFoundOrDenied(h.req)) =>
                IsErrorResponse(h) /\ h.code = 404
           /\ (Complete(h) /\ ReadFails(h.req)) =>
                h.raised /\ h.code = 200 /\ ~IsErrorResponse(h)

C4_Witness ==
  \E k \in Slot :
    /\ Complete(hs[1][k]) /\ ReadFails(hs[1][k].req) /\ hs[1][k].raised
    /\ StillServing(1) /\ pending[1] > 0

(***************************************************************************)
(* C2                                                                      *)
(***************************************************************************)
BindFailed(i) == exc[i] = "OSError"

\* C2: an instance started while another instance holds port 8000 fails to
\* bind: it ends with the bind error and a non-zero status, never reaches
\* the serving state, never serves a request, never binds another port and
\* does not retry the bind.  (At most one instance listens on the port at a
\* time; an instance whose bind failed never listens, prints no banner,
\* accepts nothing, and has called bind once.)
C2_SecondInstanceFails ==
  /\ \A i, j \in Proc : (listening[i] /\ listening[j]) => i = j
  /\ \A i \in Proc :
       /\ boundPort[i] \in {0, PORT}
       /\ bindTries[i] <= 1
       /\ listening[i] => boundPort[i] = PORT
       /\ BindFailed(i) =>
            /\ pc[i] \in {"exiting", "done"}
            /\ ~listening[i] /\ boundPort[i] = 0 /\ ~accepted[i]
            /\ bindTries[i] = 1
            /\ ~Printed(i, "banner")
            /\ pc[i] = "done" => exitStatus[i] = << EXIT_EXCEPTION >>
       /\ (pc[i] = "done" /\ intAt[i] = "none") => BindFailed(i)

C2_Witness ==
  \E i, j \in Proc :
    /\ i # j /\ pc[j] = "serve" /\ listening[j] /\ accepted[j]
    /\ BindFailed(i) /\ pc[i] = "done" /\ exitStatus[i] = << EXIT_EXCEPTION >>
    /\ ~timeWait

(***************************************************************************)
(* C3                                                                      *)
(***************************************************************************)
\* C3: after an interrupt that arrived in the serve loop, the process has
\* printed the shutdown message and exited with status 0, and the port is
\* released: with no instance listening, a start of the server on the port
\* succeeds.
C3_InterruptReleasesPort ==
  \A i \in Proc :
    (pc[i] = "done" /\ intAt[i] = "serve") =>
      /\ Printed(i, "stopped")
      /\ exitStatus[i] = << EXIT_OK >>
      /\ ~listening[i]
      /\ (\A j \in Proc : ~listening[j]) => bind_ok(PORT)

(***************************************************************************)
(* C7                                                                      *)
(***************************************************************************)
\* C7 (as claimed): on an interrupt received while serving, the listening
\* socket is closed, then the shutdown message is printed, then the process
\* exits with status 0: whenever the message is printed the socket is
\* closed already.
C7_ClosedThenPrinted ==
  \A i \in Proc :
    intAt[i] = "serve" =>
      /\ Printed(i, "stopped") => ~listening[i]
      /\ exitStatus[i] # <<>> =>
           Printed(i, "stopped") /\ exitStatus[i] = << EXIT_OK >>

\* C7 (amended): on an interrupt received while serving, the shutdown
\* message is printed, then the listening socket is closed, then the
\* process exits with status 0: whenever the socket is closed the message
\* is printed already, and whenever the process has exited the socket is
\* closed and the status is 0.
C7_PrintedThenClosed ==
  \A i \in Proc :
    intAt[i] = "serve" =>
      /\ ~listening[i] => Printed(i, "stopped")
      /\ pc[i] = "except" => listening[i] /\ ~Printed(i, "stopped")
      /\ pc[i] = "sysexit" => listening[i] /\ Printed(i, "stopped")
      /\ exitStatus[i] # <<>> =>
           ~listening[i] /\ Printed(i, "stopped") /\ exitStatus[i] = << EXIT_OK >>

C7_Witness ==
  \E i \in Proc :
    /\ intAt[i] = "serve" /\ pc[i] = "done" /\ exitStatus[i] = << EXIT_OK >>
    /\ Printed(i, "stopped") /\ ~listening[i]

(***************************************************************************)
(* C8                                                                      *)
(***************************************************************************)
\* C8: requests are handled one at a time: in every state at most one
\* request is being handled by an instance, and a connection is accepted
\* only when the handling of the previous one has finished.
C8_OneRequestAtATime ==
  \A i \in Proc : Cardinality(ActiveSlots(i)) <= 1

C8_Witness ==
  \E i \in Proc :
    /\ Cardinality(ActiveSlots(i)) = 1 /\ pending[i] > 0 /\ pc[i] = "serve"
    /\ \E k \in Slot : hs[i][k].st = "body"

(***************************************************************************)
(* C6                                                                      *)
(***************************************************************************)
\* C6: the directory requests are served from is the "static" directory
\* next to the program file, for every working directory the caller starts
\* the program from: it is the directory the banner reports, and it is the
\* same for every request of the process.
C6_RootNextToProgram ==
  \A i \in Proc :
    /\ \A n \in 1..Len(stdout[i]) :
         stdout[i][n].kind = "banner" => stdout[i][n].dir = DocumentedRoot
    /\ pc[i] \in {"bind", "banner", "serve"} => cwd[i] = ScriptDir
    /\ \A k \in Slot :
         LET h == hs[i][k] IN
           /\ h.st \notin {"idle", "handle"} => h.root = DocumentedRoot
           /\ h.src # <<>> => IsPrefix(DocumentedRoot, h.src)
           /\ (Complete(h) /\ h.req.path = Path(<<"a.txt">>, FALSE)) =>
                LastIs(h.wire, FileBody("bytes:web/a"))

C6_Witness ==
  \E i \in Proc, k \in Slot :
    /\ startDir[i] = <<"home">> /\ Printed(i, "banner")
    /\ Complete(hs[i][k]) /\ hs[i][k].src = <<"web", "static", "a.txt">>

(***************************************************************************)
(* C10                                                                     *)
(***************************************************************************)
\* C10: the shutdown message and exit status 0 are produced only by an
\* interrupt that arrives while the serve loop runs; the banner is printed
\* only after the bind has succeeded and before any request is accepted;
\* an interrupt that arrives after the bind and before the serve loop is
\* not handled: the process ends without the shutdown message and with a
\* non-zero status, and the listening socket is closed.
C10_OnlyServeLoopInterruptIsClean ==
  \A i \in Proc :
    /\ Printed(i, "stopped") => intAt[i] = "serve"
    /\ exitStatus[i] = << EXIT_OK >> => intAt[i] = "serve"
    /\ Printed(i, "banner") => (boundPort[i] = PORT /\ bindTries[i] = 1)
    /\ accepted[i] => Printed(i, "banner")
    /\ intAt[i] = "banner" =>
         /\ boundPort[i] = PORT
         /\ pc[i] \in {"exiting", "done"}
         /\ ~Printed(i, "stopped")
         /\ ~listening[i]
         /\ ~accepted[i]
         /\ pc[i] = "done" => exitStatus[i] = << EXIT_SIGINT >>

C10_Witness ==
  \E i \in Proc :
    /\ intAt[i] = "banner" /\ pc[i] = "done" /\ ~listening[i]
    /\ exitStatus[i] # << EXIT_OK >>

=============================================================================
